---- MODULE Spec2Model ----
(***************************************************************************)
(* ErrorWatch browser SDK (class ErrorWatch): capture -> batch -> transport *)
(* -> persistent delivery queue, with the breadcrumb trail and the rrweb    *)
(* recorder adapter.  Handlers are translated as functions on a "world"     *)
(* record (the instance fields, the browser environment and history         *)
(* variables); one action runs one handler to its next await.               *)
(***************************************************************************)
EXTENDS Integers, Sequences, FiniteSets, TLC

\* ---- program constants ----
BATCH_INTERVAL == 5000
BATCH_SIZE == 10
BREADCRUMB_LIMIT == 30
DefaultMaxRecordingDuration == 30000
isBrowser == TRUE

\* ---- bounds of the model ----
TickMs == 2500
MaxTime == 7500
MaxEvents == 11
MaxStored == 11
MaxQueueEvents == 2
MaxQueueTime == 5000
MaxOnline == 1
MaxDestroy == 1
MaxCaptureEvents == 2
MaxCaptureTime == 5000
MaxWraps == 2
MaxTrailCrumbs == 32
MaxTrailEvents == 2
MaxTrailTime == 5000
MaxFrames == 3
RecTickMs == 10000
MaxRecTime == 40000
MaxRecEvents == 1
MaxStack == 3
MaxDomLen == 2
MaxFairEvents == 1
MaxFairOnline == 1
MaxFairTime == 5000
MaxUnload == 1

\* ---- optional values: undefined / null is <<>>, a value v is <<v>> ----
None == <<>>
Some(v) == <<v>>

Min(a, b) == IF a < b THEN a ELSE b

RemoveAt(s, i) == SubSeq(s, 1, i - 1) \o SubSeq(s, i + 1, Len(s))

Range(s) == {s[i] : i \in 1..Len(s)}

RECURSIVE Flatten(_)
Flatten(ss) == IF ss = <<>> THEN <<>> ELSE Head(ss) \o Flatten(Tail(ss))

VARIABLES
  config,           \* this.config (beforeSend is the chain of wrappers)
  isRecording,      \* this.isRecording
  recordingEvents,  \* this.recordingEvents
  stopRecording,    \* this.stopRecording (None = undefined)
  errorQueue,       \* this.errorQueue
  isSendingQueue,   \* this.isSendingQueue
  batch,            \* this.batch
  batchTimer,       \* this.batchTimer (None = null, Some(handle))
  breadcrumbs,      \* this.breadcrumbs
  sessionId,        \* this.sessionId
  userId,           \* this.userId
  storage,          \* localStorage[ERROR_QUEUE_KEY] (None = no item)
  storageOk,        \* localStorage.getItem / setItem do not throw
  now,              \* Date.now()
  timers,           \* armed setTimeout handles (a handle is its deadline)
  recorderActive,   \* rrweb is recording and calls emit
  flushSends,       \* sendBatch calls awaited by flushBatch, in issue order
  drainSends,       \* sendBatch calls awaited by flushQueue, in issue order
  delivered,        \* batches the collector accepted (2xx), in arrival order
  captured,         \* number of ErrorData objects created so far
  crumbCount,       \* number of addBreadcrumb calls so far
  hookCalls,        \* arguments onErrorCaptured was called with
  warnings,         \* number of console.warn diagnostics emitted
  firstAddAt,       \* time of the first add since the last flush (None if none)
  counts,           \* how often the bounded host operations ran
  rejections,       \* promises of the agent that rejected with no handler
  sessionHooks,     \* calls of onSessionStart / onSessionEnd, in order
  trailHolders,     \* ids of the events whose metadata.breadcrumbs is the
                    \* array this.breadcrumbs itself, not a copy of it
  call              \* the handler that ran last, its argument and outcome

vars == <<config, isRecording, recordingEvents, stopRecording, errorQueue,
          isSendingQueue, batch, batchTimer, breadcrumbs, sessionId, userId,
          storage, storageOk, now, timers, recorderActive, flushSends,
          drainSends, delivered, captured, crumbCount, hookCalls, warnings,
          firstAddAt, counts, rejections, sessionHooks, trailHolders, call>>

World ==
  [config |-> config, isRecording |-> isRecording,
   recordingEvents |-> recordingEvents, stopRecording |-> stopRecording,
   errorQueue |-> errorQueue, isSendingQueue |-> isSendingQueue,
   batch |-> batch, batchTimer |-> batchTimer, breadcrumbs |-> breadcrumbs,
   sessionId |-> sessionId, userId |-> userId, storage |-> storage,
   storageOk |-> storageOk, now |-> now, timers |-> timers,
   recorderActive |-> recorderActive, flushSends |-> flushSends,
   drainSends |-> drainSends, delivered |-> delivered, captured |-> captured,
   crumbCount |-> crumbCount, hookCalls |-> hookCalls, warnings |-> warnings,
   firstAddAt |-> firstAddAt, counts |-> counts, rejections |-> rejections,
   sessionHooks |-> sessionHooks, trailHolders |-> trailHolders,
   call |-> call,
   depth |-> 0]  \* frames on the call stack; a handler starts on an empty one

Commit(w) ==
  /\ config' = w.config
  /\ isRecording' = w.isRecording
  /\ recordingEvents' = w.recordingEvents
  /\ stopRecording' = w.stopRecording
  /\ errorQueue' = w.errorQueue
  /\ isSendingQueue' = w.isSendingQueue
  /\ batch' = w.batch
  /\ batchTimer' = w.batchTimer
  /\ breadcrumbs' = w.breadcrumbs
  /\ sessionId' = w.sessionId
  /\ userId' = w.userId
  /\ storage' = w.storage
  /\ storageOk' = w.storageOk
  /\ now' = w.now
  /\ timers' = w.timers
  /\ recorderActive' = w.recorderActive
  /\ flushSends' = w.flushSends
  /\ drainSends' = w.drainSends
  /\ delivered' = w.delivered
  /\ captured' = w.captured
  /\ crumbCount' = w.crumbCount
  /\ hookCalls' = w.hookCalls
  /\ warnings' = w.warnings
  /\ firstAddAt' = w.firstAddAt
  /\ counts' = w.counts
  /\ rejections' = w.rejections
  /\ sessionHooks' = w.sessionHooks
  /\ trailHolders' = w.trailHolders
  /\ call' = w.call

\* ---- data ----

\* ErrorData.metadata as built by the capture sources (other keys undefined);
\* type is None for the window 'error' source, which passes no metadata
Metadata(type) ==
  [type |-> type, user |-> None, version |-> None, breadcrumbs |-> None,
   sessionId |-> None, userId |-> None, sessionStart |-> None]

\* an ErrorData object; id stands for the object's identity
ErrorData(id, message, severity, type) ==
  [id |-> id, message |-> message, severity |-> severity,
   metadata |-> Metadata(type), screenRecording |-> None]

Breadcrumb(type, n) == [type |-> type, n |-> n]

\* one queue entry written by an earlier page load (session 0)
StoredEvent(k) ==
  [ErrorData(k, "ok", "error", Some("manual")) EXCEPT
     !.metadata.breadcrumbs = Some(<<>>), !.metadata.sessionId = Some(0),
     !.metadata.sessionStart = Some(0)]

\* the queue of n entries an earlier page load left in localStorage
StoredQueue(n) == [i \in 1..n |-> StoredEvent(i - n - 1)]

\* one element of the request body sendBatch builds for an event
Payload(e) ==
  [message |-> e.message,
   level |-> e.severity,
   exception_type |-> IF e.metadata.type = None THEN "error"
                      ELSE e.metadata.type[1],
   user_id |-> IF e.metadata.user = None THEN "" ELSE e.metadata.user[1].id,
   breadcrumbs |-> e.metadata.breadcrumbs]

\* ---- the user's callbacks ----

\* config.beforeSend as the user wrote it: the default, the README's filter,
\* a function that returns a modified copy, one that throws on one event,
\* and one that throws on every event
UserBeforeSend(kind, e) ==
  CASE kind = "filter" ->
         IF e.message = "ignore" THEN [st |-> "null", ev |-> e]
                                 ELSE [st |-> "ok", ev |-> e]
    [] kind = "modify" ->
         [st |-> "ok", ev |-> [e EXCEPT !.message = "[scrubbed]"]]
    [] kind = "throws" ->
         IF e.message = "boom" THEN [st |-> "throw", ev |-> e]
                               ELSE [st |-> "ok", ev |-> e]
    [] kind = "broken" -> [st |-> "throw", ev |-> e]
    [] OTHER -> [st |-> "ok", ev |-> e]

\* the wrapper setUser installs around the previous beforeSend
SetUserWrapper(processed, user) ==
  IF processed.st # "ok" THEN processed
  ELSE [processed EXCEPT !.ev.metadata.user = Some(user)]

\* the wrapper setContext installs around the previous beforeSend
SetContextWrapper(processed, value) ==
  IF processed.st # "ok" THEN processed
  ELSE [processed EXCEPT !.ev.metadata.version = Some(value)]

\* this.config.beforeSend(e): the chain of wrappers around the user function
RECURSIVE beforeSend(_, _)
beforeSend(chain, e) ==
  LET top == chain[Len(chain)] IN
  IF Len(chain) = 1 THEN UserBeforeSend(top.val, e)
  ELSE LET processed == beforeSend(SubSeq(chain, 1, Len(chain) - 1), e) IN
       IF top.kind = "setUser" THEN SetUserWrapper(processed, [id |-> top.val])
       ELSE SetContextWrapper(processed, top.val)

\* analyticsHooks.onErrorCaptured(e) throws
HookThrows(hook, e) == hook = "throws" /\ e.message = "boom"

\* ---- storage and session ----

\* Date.now().toString(36) + Math.random()...: the id of this page load
\* (the page load that left a queue in storage had id 0)
generateSessionId == 1

loadQueue(raw, ok) ==
  IF ~isBrowser THEN <<>>
  ELSE IF ~ok THEN <<>>
  ELSE IF raw # None THEN raw[1] ELSE <<>>

saveQueue(w, queue) ==
  IF ~isBrowser THEN w
  ELSE IF w.storageOk THEN [w EXCEPT !.storage = Some(queue)]
  ELSE w

\* ---- breadcrumb trail ----

addBreadcrumbKeepsOldest(w, type) ==
  LET pushed == Append(w.breadcrumbs, Breadcrumb(type, w.crumbCount + 1)) IN
  [w EXCEPT !.crumbCount = @ + 1,
            !.breadcrumbs = IF Len(pushed) > BREADCRUMB_LIMIT
                            THEN SubSeq(pushed, 1, BREADCRUMB_LIMIT)
                            ELSE pushed]

\* push and shift change the array in place: every event that holds the
\* array itself sees the change
addBreadcrumb(w, type) ==
  LET pushed == Append(w.breadcrumbs, Breadcrumb(type, w.crumbCount + 1))
      trail == IF Len(pushed) > BREADCRUMB_LIMIT THEN Tail(pushed) ELSE pushed
      Seen(e) == IF e.id \in w.trailHolders
                 THEN [e EXCEPT !.metadata.breadcrumbs = Some(trail)] ELSE e
      SeenAll(es) == [i \in DOMAIN es |-> Seen(es[i])]
  IN [w EXCEPT !.crumbCount = @ + 1,
               !.breadcrumbs = trail,
               !.batch = SeenAll(@),
               !.errorQueue = SeenAll(@),
               !.flushSends = [i \in DOMAIN @ |-> SeenAll(@[i])],
               !.drainSends = [i \in DOMAIN @ |-> SeenAll(@[i])]]

\* console.log as patched by setupBreadcrumbs
consoleLog(w) == IF isBrowser THEN addBreadcrumb(w, "console") ELSE w

\* ---- batch accumulator, transport, delivery queue ----

queueErrorTwice(w, errorData) ==
  LET w1 == [w EXCEPT !.errorQueue = Append(Append(@, errorData), errorData)]
  IN saveQueue(w1, w1.errorQueue)

queueError(w, errorData) ==
  LET w1 == [w EXCEPT !.errorQueue = Append(@, errorData)] IN
  saveQueue(w1, w1.errorQueue)

flushBatchKeepsBatch(w) ==
  IF Len(w.batch) = 0 THEN w
  ELSE LET batchToSend == w.batch
           w1 == [w EXCEPT !.firstAddAt = None]
           w2 == IF w1.batchTimer # None
                 THEN [w1 EXCEPT !.timers = @ \ {w1.batchTimer[1]},
                                 !.batchTimer = None]
                 ELSE w1
       IN [w2 EXCEPT !.flushSends = Append(@, batchToSend)]

\* flushBatch up to its await: the request is in flight
flushBatch(w) ==
  IF Len(w.batch) = 0 THEN w
  ELSE LET batchToSend == w.batch
           w1 == [w EXCEPT !.batch = <<>>, !.firstAddAt = None]
           w2 == IF w1.batchTimer # None
                 THEN [w1 EXCEPT !.timers = @ \ {w1.batchTimer[1]},
                                 !.batchTimer = None]
                 ELSE w1
       IN [w2 EXCEPT !.flushSends = Append(@, batchToSend)]

addToBatchRearms(w, errorData) ==
  LET w1 == [w EXCEPT !.batch = Append(@, errorData),
                      !.firstAddAt = IF Len(w.batch) = 0 THEN Some(w.now)
                                     ELSE @]
  IN IF Len(w1.batch) >= BATCH_SIZE THEN flushBatch(w1)
     ELSE [w1 EXCEPT !.batchTimer = Some(w1.now + BATCH_INTERVAL),
                     !.timers = (@ \ Range(w1.batchTimer))
                                  \cup {w1.now + BATCH_INTERVAL}]

addToBatch(w, errorData) ==
  LET w1 == [w EXCEPT !.batch = Append(@, errorData),
                      !.firstAddAt = IF Len(w.batch) = 0 THEN Some(w.now)
                                     ELSE @]
  IN IF Len(w1.batch) >= BATCH_SIZE THEN flushBatch(w1)
     ELSE IF w1.batchTimer = None
     THEN [w1 EXCEPT !.batchTimer = Some(w1.now + BATCH_INTERVAL),
                     !.timers = @ \cup {w1.now + BATCH_INTERVAL}]
     ELSE w1

flushQueueLoopNewestFirst(w) ==
  IF Len(w.errorQueue) > 0
  THEN LET n == Min(BATCH_SIZE, Len(w.errorQueue)) IN
       [w EXCEPT !.errorQueue = SubSeq(@, 1, Len(@) - n),
                 !.drainSends =
                    Append(@, SubSeq(w.errorQueue, Len(w.errorQueue) - n + 1,
                                     Len(w.errorQueue)))]
  ELSE [w EXCEPT !.isSendingQueue = FALSE]

\* the while loop of flushQueue up to its next await (or to the finally)
flushQueueLoop(w) ==
  IF Len(w.errorQueue) > 0
  THEN LET n == Min(BATCH_SIZE, Len(w.errorQueue)) IN
       [w EXCEPT !.errorQueue = SubSeq(@, n + 1, Len(@)),
                 !.drainSends = Append(@, SubSeq(w.errorQueue, 1, n))]
  ELSE [w EXCEPT !.isSendingQueue = FALSE]

flushQueueUnguarded(w) ==
  flushQueueLoop([w EXCEPT !.isSendingQueue = TRUE])

flushQueue(w) ==
  IF w.isSendingQueue THEN w
  ELSE flushQueueLoop([w EXCEPT !.isSendingQueue = TRUE])

restoreQueueAtBack(w, taken) == [w EXCEPT !.errorQueue = @ \o taken]

\* the catch of flushQueue: put the taken events back
restoreQueue(w, taken) == [w EXCEPT !.errorQueue = taken \o @]

\* sendBatch's promise resolves: 2xx and response.json() parses
Resolves(outcome) == outcome = "2xx-json"

\* the collector accepted the request
Accepted(outcome) == outcome \in {"2xx-json", "2xx-nojson"}

Outcomes == {"2xx-json", "2xx-nojson", "non-2xx", "network-error"}

\* ---- capture ----

sliceShares(w, errorData) == w.trailHolders \cup {errorData.id}

\* `breadcrumbs: this.breadcrumbs.slice()`: the event gets a new array, so
\* the holders of the trail array stay as they are
slice(w, errorData) == w.trailHolders

DiscardedNever(processedError) == FALSE

\* `if (!processedError) return`
Discarded(processedError) == processedError.st = "null"

RECURSIVE handleError(_, _)

\* console.warn as patched by setupConsoleCapture
consoleWarn(w, text) ==
  LET w1 == [w EXCEPT !.warnings = @ + 1] IN
  IF isBrowser /\ w1.config.captureConsole
  THEN LET w2 == [w1 EXCEPT !.captured = @ + 1, !.depth = @ + 1] IN
       [handleError(w2, ErrorData(w2.captured, text, "warning",
                                  Some("console.warn")))
          EXCEPT !.depth = w.depth]
  ELSE w1

\* handleError is async and nobody awaits it: what its catch block throws
\* rejects a promise that has no handler.  On a full call stack every call
\* throws a RangeError, in the try block and in the catch block alike.
handleError(w, errorData) ==
  LET processedError == beforeSend(w.config.beforeSend, errorData) IN
  IF w.depth >= MaxStack THEN [w EXCEPT !.rejections = @ + 1]
  ELSE IF processedError.st = "throw"
  THEN consoleWarn(queueError(w, errorData), "failed to queue")
  ELSE IF Discarded(processedError) THEN w
  ELSE
    LET attach == w.config.enableScreenRecording
                    /\ Len(w.recordingEvents) > 0
        e1 == IF attach
              THEN [errorData EXCEPT
                      !.screenRecording = Some(w.recordingEvents)]
              ELSE errorData
        w0 == IF attach THEN consoleLog(w) ELSE w
        w1 == [w0 EXCEPT !.trailHolders = slice(w0, errorData)]
        e2 == [e1 EXCEPT !.metadata.breadcrumbs = Some(w1.breadcrumbs),
                         !.metadata.sessionId = Some(w1.sessionId),
                         !.metadata.userId = w1.userId,
                         !.metadata.sessionStart = Some(0)]  \* sessionStartTime
    IN IF w1.config.onErrorCaptured = "none" THEN addToBatch(w1, e2)
       ELSE LET w2 == [w1 EXCEPT !.hookCalls = Append(@, e2)] IN
            IF HookThrows(w2.config.onErrorCaptured, e2)
            THEN consoleWarn(queueError(w2, e2), "failed to queue")
            ELSE addToBatch(w2, e2)

\* what handleError did with the event
CaptureResult(w, errorData) ==
  LET processedError == beforeSend(w.config.beforeSend, errorData) IN
  IF processedError.st = "throw" THEN "queued"
  ELSE IF processedError.st = "null" THEN "null"
  ELSE IF HookThrows(w.config.onErrorCaptured, errorData) THEN "queued"
  ELSE "batched"

\* ---- DOM snapshots and the redaction filter ----

\* an element of a snapshot: tag, class, value attribute and text content
Element(tag, class, value, text) ==
  [tag |-> tag, class |-> class, value |-> value, text |-> text]

\* an HTML string: the serialization of a whole document
\* (<html><head></head><body>...</body></html>) or a fragment of markup
DomString(form, els) == [form |-> form, els |-> els]

\* new DOMParser().parseFromString(domString, 'text/html'): always a whole
\* document, a fragment ends up in its body; an element node has its
\* attributes, its text and the value property, which starts as the attribute
parseFromString(domString) ==
  [body |-> [i \in DOMAIN domString.els |->
               [tag |-> domString.els[i].tag,
                class |-> domString.els[i].class,
                value |-> domString.els[i].value,
                text |-> domString.els[i].text,
                valueProperty |-> domString.els[i].value]]]

\* el is in doc.querySelectorAll(selector); a selector '.c' is written "c"
Matches(el, selector) == el.class = selector

\* the body of the forEach: `el.value = ...` sets the property of an input
\* or textarea (not its attribute, not its text), `el.textContent = ...`
\* replaces the text of any other element
redactElement(el) ==
  IF el.tag \in {"input", "textarea"}
  THEN [el EXCEPT !.valueProperty = "[REDACTED]"]
  ELSE [el EXCEPT !.text = "[REDACTED]"]

\* the loop over the selectors
RECURSIVE redactEach(_, _)
redactEach(doc, selectors) ==
  IF selectors = <<>> THEN doc
  ELSE redactEach(
         [doc EXCEPT !.body =
            [i \in DOMAIN @ |-> IF Matches(@[i], Head(selectors))
                                THEN redactElement(@[i]) ELSE @[i]]],
         Tail(selectors))

\* doc.documentElement.outerHTML: the whole document, with the attributes
\* and the text of its elements
outerHTML(doc) ==
  DomString("document",
            [i \in DOMAIN doc.body |->
               Element(doc.body[i].tag, doc.body[i].class,
                       doc.body[i].value, doc.body[i].text)])

\* config.redactSelectors is None when the caller passes undefined; an
\* array, even an empty one, is truthy
redactDom(w, domString) ==
  IF ~isBrowser \/ w.config.redactSelectors = None \/ w.config.allowPII
  THEN domString
  ELSE outerHTML(redactEach(parseFromString(domString),
                                 w.config.redactSelectors[1]))

\* the page rrweb records: a card number field, a name and plain text
PageDom ==
  DomString("document",
            <<Element("input", "secret", "4111", ""),
              Element("div", "secret", "", "alice"),
              Element("p", "plain", "", "hello")>>)

\* ---- recorder adapter ----

startScreenRecording(w) ==
  IF ~isBrowser \/ w.isRecording THEN w
  ELSE [w EXCEPT !.recordingEvents = <<>>, !.isRecording = TRUE,
                 !.stopRecording = Some("stop"), !.recorderActive = TRUE]

restartRecording(w) ==
  LET w1 == IF w.stopRecording # None
            THEN [w EXCEPT !.recorderActive = FALSE] ELSE w
  IN startScreenRecording(w1)

\* the emit callback passed to rrweb's record()
emit(w, event) ==
  LET w1 == [w EXCEPT !.recordingEvents = Append(@, event)] IN
  IF Len(w1.recordingEvents) > 0
       /\ w1.now - w1.recordingEvents[1].timestamp
            > w1.config.maxRecordingDuration
  THEN restartRecording(w1)
  ELSE w1

\* ---- construction ----

\* the defaults of the constructor, overridden by the caller's config
Config(userFn, hook, rec, console) ==
  [beforeSend |-> <<[kind |-> "user", val |-> userFn]>>,
   onErrorCaptured |-> hook,
   enableScreenRecording |-> rec,
   captureConsole |-> console,
   maxRecordingDuration |-> DefaultMaxRecordingDuration,
   redactSelectors |-> Some(<<>>),
   allowPII |-> FALSE]

init(w) ==
  LET w1 == IF w.config.enableScreenRecording /\ isBrowser
            THEN startScreenRecording(w) ELSE w
  IN flushQueue(w1)

\* new ErrorWatch(cfg) on a page whose localStorage item is raw
Constructor(cfg, raw, ok) ==
  init([config |-> cfg, isRecording |-> FALSE, recordingEvents |-> <<>>,
        stopRecording |-> None, errorQueue |-> loadQueue(raw, ok),
        isSendingQueue |-> FALSE, batch |-> <<>>, batchTimer |-> None,
        breadcrumbs |-> <<>>, sessionId |-> generateSessionId,
        userId |-> None,
        storage |-> raw, storageOk |-> ok, now |-> 0, timers |-> {},
        recorderActive |-> FALSE, flushSends |-> <<>>, drainSends |-> <<>>,
        delivered |-> <<>>, captured |-> 0, crumbCount |-> 0,
        hookCalls |-> <<>>, warnings |-> 0, firstAddAt |-> None,
        counts |-> [online |-> 0, destroy |-> 0, unload |-> 0,
                    recovered |-> 0],
        rejections |-> 0, trailHolders |-> {},
        sessionHooks |-> <<[hook |-> "onSessionStart",
                            id |-> generateSessionId]>>,
        depth |-> 0,
        call |-> [op |-> "constructor", arg |-> <<>>, res |-> ""]])

InitWith(cfg, raw, ok) ==
  LET w == Constructor(cfg, raw, ok) IN
  /\ config = w.config
  /\ isRecording = w.isRecording
  /\ recordingEvents = w.recordingEvents
  /\ stopRecording = w.stopRecording
  /\ errorQueue = w.errorQueue
  /\ isSendingQueue = w.isSendingQueue
  /\ batch = w.batch
  /\ batchTimer = w.batchTimer
  /\ breadcrumbs = w.breadcrumbs
  /\ sessionId = w.sessionId
  /\ userId = w.userId
  /\ storage = w.storage
  /\ storageOk = w.storageOk
  /\ now = w.now
  /\ timers = w.timers
  /\ recorderActive = w.recorderActive
  /\ flushSends = w.flushSends
  /\ drainSends = w.drainSends
  /\ delivered = w.delivered
  /\ captured = w.captured
  /\ crumbCount = w.crumbCount
  /\ hookCalls = w.hookCalls
  /\ warnings = w.warnings
  /\ firstAddAt = w.firstAddAt
  /\ counts = w.counts
  /\ rejections = w.rejections
  /\ sessionHooks = w.sessionHooks
  /\ trailHolders = w.trailHolders
  /\ call = w.call

\* ---- actions: one per handler ----

Called(w, op, arg, res) ==
  Commit([w EXCEPT !.call = [op |-> op, arg |-> arg, res |-> res]])

\* errorWatch.captureError(new Error(message))
CaptureError(message) ==
  LET w == [World EXCEPT !.captured = @ + 1]
      e == ErrorData(w.captured, message, "error", Some("manual"))
  IN Called(handleError(w, e), "captureError", <<e>>, CaptureResult(w, e))

\* the setTimeout callback armed by addToBatch
BatchTimerFires ==
  \E t \in timers :
    /\ t <= now
    /\ LET w == [World EXCEPT !.timers = @ \ {t}] IN
       Called(flushBatch(w), "batchTimer", batch,
              IF Len(batch) = 0 THEN "empty" ELSE "flushed")

RECURSIVE queueAll(_, _)
queueAll(w, es) ==
  IF es = <<>> THEN w ELSE queueAll(queueError(w, Head(es)), Tail(es))

\* flushBatch after its await: sendBatch settled with outcome
FlushBatchSettles(i, outcome) ==
  /\ i \in 1..Len(flushSends)
  /\ LET batchToSend == flushSends[i]
         w == [World EXCEPT
                 !.flushSends = RemoveAt(@, i),
                 !.delivered = IF Accepted(outcome)
                               THEN Append(@, batchToSend) ELSE @]
     IN Called(IF Resolves(outcome) THEN w
               ELSE consoleWarn(queueAll(w, batchToSend), "failed to send"),
               "flushBatchSettled", batchToSend, outcome)

FlushQueueSettlesKeepsFlag(i, outcome) ==
  /\ i \in 1..Len(drainSends)
  /\ LET sent == drainSends[i]
         w == [World EXCEPT
                 !.drainSends = RemoveAt(@, i),
                 !.delivered = IF Accepted(outcome)
                               THEN Append(@, sent) ELSE @]
     IN Called(IF Resolves(outcome)
               THEN flushQueueLoop(saveQueue(w, w.errorQueue))
               ELSE LET w1 == restoreQueue(w, sent) IN
                    saveQueue(w1, w1.errorQueue),
               "flushQueueSettled", sent, outcome)

\* flushQueue after its await: sendBatch settled with outcome
FlushQueueSettles(i, outcome) ==
  /\ i \in 1..Len(drainSends)
  /\ LET sent == drainSends[i]
         w == [World EXCEPT
                 !.drainSends = RemoveAt(@, i),
                 !.delivered = IF Accepted(outcome)
                               THEN Append(@, sent) ELSE @]
     IN Called(IF Resolves(outcome)
               THEN flushQueueLoop(saveQueue(w, w.errorQueue))
               ELSE LET w1 == restoreQueue(w, sent) IN
                    [saveQueue(w1, w1.errorQueue) EXCEPT
                       !.isSendingQueue = FALSE],
               "flushQueueSettled", sent, outcome)

\* the window 'online' listener
Online ==
  LET w == [World EXCEPT !.counts.online = @ + 1] IN
  Called(flushQueue(w), "online", <<>>,
         IF isSendingQueue THEN "noop"
         ELSE IF Len(errorQueue) = 0 THEN "empty" ELSE "started")

\* a popstate, hashchange or click listener, or a console.log of the host
RecordBreadcrumb(type) ==
  Called(addBreadcrumb(World, type), "addBreadcrumb", <<>>, type)

setUser(w, user) ==
  [w EXCEPT !.userId = Some(user.id),
            !.config.beforeSend =
               Append(@, [kind |-> "setUser", val |-> user.id])]

setContext(w, value) ==
  [w EXCEPT !.config.beforeSend =
               Append(@, [kind |-> "setContext", val |-> value])]

SetUser(id) == Called(setUser(World, [id |-> id]), "setUser", <<>>, id)

SetContext(value) ==
  Called(setContext(World, value), "setContext", <<>>, value)

destroyKeepsFrames(w) ==
  LET w1 == IF w.stopRecording # None
            THEN [w EXCEPT !.recorderActive = FALSE] ELSE w
      w2 == [w1 EXCEPT !.isRecording = FALSE]
      w3 == IF w2.batchTimer # None
            THEN [w2 EXCEPT !.timers = @ \ {w2.batchTimer[1]},
                            !.batchTimer = None]
            ELSE w2
  IN flushBatch(w3)

destroy(w) ==
  LET w1 == IF w.stopRecording # None
            THEN [w EXCEPT !.recorderActive = FALSE] ELSE w
      w2 == [w1 EXCEPT !.isRecording = FALSE, !.recordingEvents = <<>>]
      w3 == IF w2.batchTimer # None
            THEN [w2 EXCEPT !.timers = @ \ {w2.batchTimer[1]},
                            !.batchTimer = None]
            ELSE w2
  IN flushBatch(w3)

Destroy ==
  LET w == [World EXCEPT !.counts.destroy = @ + 1] IN
  Called(destroy(w), "destroy", batch, "")

\* the window 'beforeunload' listener
BeforeUnload ==
  LET w == [World EXCEPT !.counts.unload = @ + 1] IN
  Called([w EXCEPT !.sessionHooks =
                      Append(@, [hook |-> "onSessionEnd", id |-> w.sessionId])],
         "beforeunload", <<>>, "")

\* rrweb emits a frame
RecorderEmit ==
  /\ recorderActive
  /\ Called(emit(World, [timestamp |-> now, dom |-> PageDom]),
            "emit", <<>>, "")

\* up to d ms pass: a due timer fires before time moves on, and time does
\* not move past the deadline of an armed timer
Tick(d) ==
  /\ \A t \in timers : now < t
  /\ LET due == {t \in timers : t < now + d}
         then == IF due = {} THEN now + d
                 ELSE CHOOSE t \in due : \A u \in due : t <= u
     IN Called([World EXCEPT !.now = then], "tick", <<>>, "")

\* redactDom applied to a snapshot
RedactDom(domString) ==
  Called(World, "redactDom", <<domString, redactDom(World, domString)>>, "")

\* ---- specifications ----

\* the network and the collector recover: from now on every request is
\* answered with a 2xx
Recover ==
  /\ counts.recovered = 0
  /\ Called([World EXCEPT !.counts.recovered = 1], "recover", <<>>, "")

\* what a request can end with
Answers ==
  IF counts.recovered > 0 THEN {o \in Outcomes : Accepted(o)} ELSE Outcomes

FlushSettles ==
  \E i \in 1..Len(flushSends), o \in Answers : FlushBatchSettles(i, o)

DrainSettles ==
  \E i \in 1..Len(drainSends), o \in Answers : FlushQueueSettles(i, o)

\* Batch accumulator and transport: enough captures to fill a batch by size,
\* enough time for a timer flush, destroy(); rejected batches pile up in the
\* delivery queue (its drain is exercised by SpecQueue).
Init == InitWith(Config("default", "none", FALSE, FALSE), None, TRUE)

Next ==
  \/ captured < MaxEvents /\ CaptureError("ok")
  \/ BatchTimerFires
  \/ FlushSettles
  \/ counts.destroy < MaxDestroy /\ Destroy
  \/ now + TickMs <= MaxTime /\ Tick(TickMs)

Spec == Init /\ [][Next]_vars

\* Delivery queue: a queue left in storage by an earlier page load (up to
\* more than one drain batch), the startup drain, a few new captures.
InitQueue ==
  \E n \in {0, 2, MaxStored} :
    InitWith(Config("default", "none", FALSE, FALSE),
             IF n = 0 THEN None ELSE Some(StoredQueue(n)), TRUE)

NextQueue ==
  \/ captured < MaxQueueEvents /\ CaptureError("ok")
  \/ BatchTimerFires
  \/ FlushSettles
  \/ DrainSettles
  \/ counts.online < MaxOnline /\ Online
  \/ counts.destroy < MaxDestroy /\ Destroy
  \/ now + TickMs <= MaxQueueTime /\ Tick(TickMs)

SpecQueue == InitQueue /\ [][NextQueue]_vars

\* Progress: a stored queue, a capture, 'online', and a collector that
\* recovers for good at some point.  Every request completes (fetch settles
\* its promise and the continuation runs), time passes and due timers fire.
InitFair == InitQueue

\* time passes, at least until every armed timer has fired
TimePasses ==
  (now + TickMs <= MaxFairTime \/ timers # {}) /\ Tick(TickMs)

NextFair ==
  \/ captured < MaxFairEvents /\ CaptureError("ok")
  \/ BatchTimerFires
  \/ FlushSettles
  \/ DrainSettles
  \/ counts.online < MaxFairOnline /\ Online
  \/ Recover
  \/ TimePasses

SpecFair ==
  /\ InitFair /\ [][NextFair]_vars
  /\ WF_vars(DrainSettles) /\ WF_vars(FlushSettles)
  /\ WF_vars(BatchTimerFires) /\ WF_vars(TimePasses)

\* Capture layer: every kind of beforeSend and onErrorCaptured, console
\* capture on and off, setUser and setContext; few events.
InitCapture ==
  \E userFn \in {"default", "filter", "modify", "throws", "broken"},
     hook \in {"none", "observe", "throws"}, console \in BOOLEAN :
    InitWith(Config(userFn, hook, FALSE, console), None, TRUE)

NextCapture ==
  \/ \E m \in {"ok", "ignore", "boom"} :
       captured < MaxCaptureEvents /\ CaptureError(m)
  \/ Len(config.beforeSend) <= MaxWraps /\ SetUser("u1")
  \/ Len(config.beforeSend) <= MaxWraps /\ SetContext("1.2.3")
  \/ BatchTimerFires
  \/ FlushSettles
  \/ now + TickMs <= MaxCaptureTime /\ Tick(TickMs)

SpecCapture == InitCapture /\ [][NextCapture]_vars

\* Breadcrumb trail: more breadcrumbs than the trail holds, captures between.
InitTrail == InitWith(Config("default", "none", FALSE, FALSE), None, TRUE)

NextTrail ==
  \/ crumbCount < MaxTrailCrumbs /\ RecordBreadcrumb("ui")
  \/ captured < MaxTrailEvents /\ CaptureError("ok")
  \/ BatchTimerFires
  \/ FlushSettles
  \/ now + TickMs <= MaxTrailTime /\ Tick(TickMs)

SpecTrail == InitTrail /\ [][NextTrail]_vars

\* Recorder adapter and teardown: frames over more than
\* maxRecordingDuration, a capture, destroy() and the page unload.
InitRecorder ==
  InitWith([Config("default", "none", TRUE, FALSE) EXCEPT
              !.redactSelectors = Some(<<"secret">>)], None, TRUE)

NextRecorder ==
  \/ Len(recordingEvents) < MaxFrames /\ RecorderEmit
  \/ captured < MaxRecEvents /\ CaptureError("ok")
  \/ BatchTimerFires
  \/ FlushSettles
  \/ counts.destroy < MaxDestroy /\ Destroy
  \/ counts.unload < MaxUnload /\ BeforeUnload
  \/ now + RecTickMs <= MaxRecTime /\ Tick(RecTickMs)

SpecRecorder == InitRecorder /\ [][NextRecorder]_vars

\* Redaction filter: redactDom on every snapshot of up to MaxDomLen
\* elements, under every redaction configuration.
Selectors ==
  {None, Some(<<>>), Some(<<"secret">>), Some(<<"secret", "card">>)}

Elements ==
  {Element("input", "secret", "4111", ""),
   Element("div", "secret", "", "alice"),
   Element("textarea", "card", "", "4111"),
   Element("p", "plain", "", "hello")}

DomStrings ==
  {DomString(form, els) :
     form \in {"fragment", "document"},
     els \in UNION {[1..k -> Elements] : k \in 0..MaxDomLen}}

InitRedact ==
  \E selectors \in Selectors, allowPII \in BOOLEAN :
    InitWith([Config("default", "none", FALSE, FALSE) EXCEPT
                !.redactSelectors = selectors, !.allowPII = allowPII],
             None, TRUE)

NextRedact == \E domString \in DomStrings : RedactDom(domString)

SpecRedact == InitRedact /\ [][NextRedact]_vars

\* ---- properties ----

Last(s) == s[Len(s)]

\* the events a drain took from the queue and is sending
InFlightDrain == Range(Flatten(drainSends))

\* the step ran handler op (and changed the state)
Ran(op) == call'.op = op /\ vars' # vars

\* the step was captureError and the event passed beforeSend and the hook
Batched == Ran("captureError") /\ call'.res = "batched"

\* C1: if sendBatch rejects for a flushed batch of K events, exactly those K
\* events are appended to the delivery queue (memory and storage), in batch
\* order, and none of them is delivered or left in the batch.
C1_FailedBatchRequeued ==
  [][(Ran("flushBatchSettled") /\ ~Resolves(call'.res)) =>
       /\ errorQueue' = errorQueue \o call'.arg
       /\ storage' = Some(errorQueue')
       /\ Range(call'.arg) \cap Range(batch') = {}
       /\ Range(call'.arg) \cap Range(Flatten(delivered')) = {}]_vars

\* C2: every event that is in the delivery queue or taken from it by a drain
\* whose send is still in flight is contained in the stored queue.
C2_QueuedEventsAreStored ==
  storageOk =>
    \A e \in Range(errorQueue) \cup InFlightDrain :
      storage # None /\ e \in Range(storage[1])

\* C3: an add flushes exactly when it is the 10th pending one (and then no
\* timer stays armed); the timer is armed by the first add to an empty batch
\* and by no other; it fires 5000 ms after that add and flushes what is
\* pending; while events are pending that timer is armed.
C3_FlushPolicy ==
  [][/\ Batched =>
          /\ (Len(flushSends') > Len(flushSends))
               <=> (Len(batch) + 1 = BATCH_SIZE)
          /\ Len(batch) + 1 = BATCH_SIZE =>
               /\ Len(Last(flushSends')) = BATCH_SIZE
               /\ batch' = <<>> /\ timers' = {} /\ batchTimer' = None
          /\ (timers' # timers /\ timers' # {}) <=> batch = <<>>
          /\ Len(batch) + 1 < BATCH_SIZE => batch' = Append(batch, Last(batch'))
     /\ Ran("batchTimer") =>
          /\ batch # <<>>
          /\ now = firstAddAt[1] + BATCH_INTERVAL
          /\ flushSends' = Append(flushSends, batch)
          /\ batch' = <<>> /\ timers' = {} /\ batchTimer' = None
     /\ Len(flushSends') > Len(flushSends) =>
          call'.op \in {"captureError", "batchTimer", "destroy"}
     /\ batch' # <<>> =>
          /\ Len(batch') < BATCH_SIZE
          /\ timers' = {firstAddAt'[1] + BATCH_INTERVAL}
          /\ batchTimer' = Some(firstAddAt'[1] + BATCH_INTERVAL)
          /\ now' <= firstAddAt'[1] + BATCH_INTERVAL]_vars

C3_Witness ==
  /\ call.op = "batchTimer" /\ Len(call.arg) = 1
  /\ \E b \in Range(flushSends) \cup Range(delivered) : Len(b) = BATCH_SIZE

\* C4: if the send of the prefix a drain took fails and nothing else touched
\* the queue since it was taken (storage still holds taken \o rest), the
\* queue in memory and in storage is again exactly taken \o rest, and the
\* drain has stopped.
C4_FailedDrainRestores ==
  [][(/\ Ran("flushQueueSettled") /\ ~Resolves(call'.res)
      /\ storage = Some(call'.arg \o errorQueue)) =>
       /\ errorQueue' = call'.arg \o errorQueue
       /\ storage' = storage
       /\ drainSends' = <<>> /\ ~isSendingQueue']_vars

C4_Witness ==
  /\ call.op = "flushQueueSettled" /\ ~Resolves(call.res)
  /\ Len(call.arg) = BATCH_SIZE
  /\ Len(errorQueue) > BATCH_SIZE
  /\ storage = Some(errorQueue)
  /\ SubSeq(errorQueue, 1, BATCH_SIZE) = call.arg

\* C5: a drain trigger that arrives while a drain is in progress changes
\* nothing (queue, storage, sends, flag); at most one drain send is in flight
\* and no event is in it twice; a drain that ends starts no further send
\* unless it continues its own loop.
C5_OneDrainAtATime ==
  [][/\ (Ran("online") /\ isSendingQueue) =>
          UNCHANGED <<errorQueue, storage, drainSends, flushSends,
                      isSendingQueue, batch, timers, delivered>>
     /\ Len(drainSends') <= 1
     /\ Len(drainSends') = 1 => isSendingQueue'
     /\ (Ran("flushQueueSettled")
           /\ (~Resolves(call'.res) \/ errorQueue = <<>>)) =>
          drainSends' = <<>> /\ ~isSendingQueue']_vars

C5_Witness ==
  /\ call.op = "online" /\ call.res = "noop"
  /\ Len(drainSends) = 1 /\ isSendingQueue /\ errorQueue # <<>>

\* C6: a captured event for which beforeSend returns null changes nothing:
\* batch, timer, hook calls, sends, queue and storage stay as they were.
C6_NullIsDropped ==
  [][(Ran("captureError") /\ call'.res = "null") =>
       UNCHANGED <<batch, batchTimer, timers, hookCalls, flushSends,
                   drainSends, errorQueue, storage, delivered, warnings,
                   breadcrumbs, firstAddAt, config>>]_vars

C6_Witness ==
  /\ call.op = "captureError" /\ call.res = "null"
  /\ Len(config.beforeSend) > 1
  /\ config.onErrorCaptured # "none"

\* the n most recent of the first count breadcrumbs, oldest first
LastCrumbs(count, n) ==
  [i \in 1..Min(count, n) |-> Breadcrumb("ui", count - Min(count, n) + i)]

\* C7: the trail never holds more than 30 entries; it is the 30 most recent
\* breadcrumbs, oldest first, and so is the snapshot a capture stores.
C7_TrailBounded ==
  [][/\ Len(breadcrumbs') <= BREADCRUMB_LIMIT
     /\ breadcrumbs' = LastCrumbs(crumbCount', BREADCRUMB_LIMIT)
     /\ Batched =>
          Last(batch').metadata.breadcrumbs
            = Some(LastCrumbs(crumbCount, BREADCRUMB_LIMIT))]_vars

C7_Witness ==
  /\ crumbCount > BREADCRUMB_LIMIT
  /\ call.op = "captureError" /\ batch # <<>>
  /\ Len(Last(batch).metadata.breadcrumbs[1]) = BREADCRUMB_LIMIT
  /\ Last(batch).metadata.breadcrumbs[1][1].n = crumbCount - BREADCRUMB_LIMIT + 1

\* C8: a frame that arrives more than maxRecordingDuration after the first
\* buffered frame leaves the adapter recording, with rrweb emitting and the
\* buffer cleared.
C8_RollingWindow ==
  [][(/\ Ran("emit") /\ recordingEvents # <<>>
      /\ now - recordingEvents[1].timestamp > config.maxRecordingDuration) =>
       isRecording' /\ recorderActive' /\ recordingEvents' = <<>>]_vars

\* the value the outermost wrapper of the given kind attaches, if any
RECURSIVE Wrapped(_, _)
Wrapped(chain, kind) ==
  IF chain = <<>> THEN None
  ELSE IF Last(chain).kind = kind THEN Some(Last(chain).val)
  ELSE Wrapped(SubSeq(chain, 1, Len(chain) - 1), kind)

\* C9: an event captured after setUser(u) reaches the batch with
\* metadata.user = u and a payload whose user_id is u.id; an event captured
\* after setContext(k, v) reaches it with metadata[k] = v.
C9_ContextApplied ==
  [][Batched =>
       LET user == Wrapped(config.beforeSend, "setUser")
           value == Wrapped(config.beforeSend, "setContext")
       IN /\ user # None =>
               /\ Last(batch').metadata.user = Some([id |-> user[1]])
               /\ Payload(Last(batch')).user_id = user[1]
          /\ value # None => Last(batch').metadata.version = value]_vars

\* C10: the event handed to the batch carries the message beforeSend
\* returned.
C10_TransformApplied ==
  [][Batched =>
       Last(batch').message
         = beforeSend(config.beforeSend, call'.arg[1]).ev.message]_vars

\* C11: a send settles as a success exactly when the collector answers with
\* a 2xx status, whatever the body: the events of a flushed batch answered
\* with a 2xx are not requeued, those of every other outcome are.
C11_StatusDecides ==
  [][Ran("flushBatchSettled") =>
       /\ Accepted(call'.res) <=> errorQueue' = errorQueue
       /\ Accepted(call'.res) =>
            Range(call'.arg) \cap Range(errorQueue') = {}]_vars

\* C12: a capture call leaves no rejected promise behind, whatever
\* beforeSend, the onErrorCaptured hook and the storage do.
C12_FailOpen ==
  [][Ran("captureError") => rejections' = rejections]_vars

\* the step captured an event that passed beforeSend and whose
\* onErrorCaptured hook threw
HookFailed ==
  /\ Ran("captureError") /\ call'.res = "queued"
  /\ beforeSend(config.beforeSend, call'.arg[1]).st = "ok"

\* C13: an event whose onErrorCaptured hook throws is in the delivery queue
\* exactly once and in the stored queue, is neither in the batch nor in a
\* send, and a diagnostic is emitted.
C13_CaptureFailureShunt ==
  [][HookFailed =>
       LET id == call'.arg[1].id IN
       /\ Cardinality({i \in 1..Len(errorQueue') : errorQueue'[i].id = id}) = 1
       /\ storage' = Some(errorQueue')
       /\ \A e \in Range(batch') \cup Range(Flatten(flushSends')) : e.id # id
       /\ warnings' > warnings]_vars

C13_Witness ==
  /\ call.op = "captureError" /\ call.res = "queued"
  /\ config.onErrorCaptured = "throws" /\ config.captureConsole
  /\ beforeSend(config.beforeSend, call.arg[1]).st = "ok"
  /\ Len(config.beforeSend) > 1
  /\ \E e \in Range(errorQueue) : e.id = call.arg[1].id
  /\ batch # <<>>

\* the frames with every DOM snapshot passed through redactDom
Redacted(w, frames) ==
  [i \in DOMAIN frames |-> [frames[i] EXCEPT !.dom = redactDom(w, @)]]

\* C14: with recording enabled, allowPII false and a non-empty selector
\* list, the recording attached to a captured event is the buffered frames
\* passed through redactDom, wherever the event goes (batch, send, queue).
C14_RecordingRedacted ==
  [][(/\ Ran("captureError") /\ recordingEvents # <<>>
      /\ config.enableScreenRecording /\ ~config.allowPII
      /\ config.redactSelectors \notin {None, Some(<<>>)}) =>
       \A e \in Range(batch') \cup Range(errorQueue')
                \cup Range(Flatten(flushSends')) :
         e.id = call'.arg[1].id =>
           e.screenRecording = Some(Redacted(World, recordingEvents))]_vars

\* C15: when destroy() returns, rrweb is stopped, the adapter is not
\* recording and its buffer is empty, no timer is armed, the batch is empty
\* and the events that were pending are in one new send; the events of a
\* send that fails are appended to the delivery queue.
C15_DestroyReleases ==
  [][/\ Ran("destroy") =>
          /\ ~recorderActive' /\ ~isRecording' /\ recordingEvents' = <<>>
          /\ timers' = {} /\ batchTimer' = None
          /\ batch' = <<>>
          /\ flushSends' = IF batch = <<>> THEN flushSends
                           ELSE Append(flushSends, batch)
     /\ (Ran("flushBatchSettled") /\ ~Accepted(call'.res)) =>
          errorQueue' = errorQueue \o call'.arg]_vars

C15_Witness ==
  /\ call.op = "destroy" /\ call.arg # <<>>
  /\ call.arg[1].screenRecording # None
  /\ Last(flushSends) = call.arg
  /\ ~recorderActive /\ recordingEvents = <<>> /\ timers = {}

\* C16: onSessionStart is the first session notification, made by the
\* constructor with the session id, and is made only once; destroy() and
\* the page unload each notify onSessionEnd with that id; nothing else
\* notifies.
C16_SessionLifecycle ==
  [][/\ Head(sessionHooks') = [hook |-> "onSessionStart", id |-> sessionId']
     /\ IF Ran("destroy") \/ Ran("beforeunload")
        THEN sessionHooks' =
               Append(sessionHooks, [hook |-> "onSessionEnd", id |-> sessionId])
        ELSE sessionHooks' = sessionHooks]_vars

\* the events an earlier page load stored (their ids ascend in the order
\* they were enqueued) are in seq in that order
StoredInOrder(seq) ==
  \A i, j \in 1..Len(seq) :
    (i < j /\ seq[i].id < 0 /\ seq[j].id < 0) => seq[i].id < seq[j].id

\* C17: a drain takes and delivers the queued events in the order they were
\* enqueued; when a send of the drain resolves, its events (at most 10, taken from
\* the front of the queue) are delivered, the stored queue is rewritten with
\* the queue as it is now, and the drain goes on with the next (up to) 10
\* events at the front of the live queue, those enqueued meanwhile included;
\* it ends only when the queue in memory and the stored queue are empty.
C17_DrainOnSuccess ==
  [][(Ran("flushQueueSettled") /\ Resolves(call'.res)) =>
       LET n == Min(BATCH_SIZE, Len(errorQueue)) IN
       /\ Len(call'.arg) <= BATCH_SIZE
       /\ StoredInOrder(call'.arg \o errorQueue)
       /\ delivered' = Append(delivered, call'.arg)
       /\ storage' = Some(errorQueue)
       /\ errorQueue' = SubSeq(errorQueue, n + 1, Len(errorQueue))
       /\ drainSends' = IF n = 0 THEN <<>> ELSE <<SubSeq(errorQueue, 1, n)>>
       /\ isSendingQueue' <=> n > 0
       /\ ~isSendingQueue' => errorQueue' = <<>> /\ storage' = Some(<<>>)]_vars

\* a stored queue of 11 and one event enqueued during the drain went out as
\* 10, then 1 and then the new one, and everything is empty
C17_Witness ==
  /\ call.op = "flushQueueSettled" /\ Resolves(call.res)
  /\ ~isSendingQueue /\ errorQueue = <<>> /\ storage = Some(<<>>)
  /\ Len(delivered) >= 2
  /\ delivered[1] = SubSeq(StoredQueue(MaxStored), 1, BATCH_SIZE)
  /\ Head(delivered[2]) = StoredQueue(MaxStored)[BATCH_SIZE + 1]
  /\ \E e \in Range(call.arg) : e.id > 0

\* C18: the session id never changes, and every event in the batch, in a
\* send, in the delivery queue or delivered carries it in its metadata.
C18_SessionIdStable ==
  [][/\ sessionId' = sessionId
     /\ \A e \in Range(batch') \cup Range(errorQueue')
                \cup Range(Flatten(flushSends'))
                \cup Range(Flatten(drainSends'))
                \cup Range(Flatten(delivered')) :
          e.metadata.sessionId = Some(sessionId')]_vars

\* C19: redactDom returns the snapshot it was given whenever allowPII is
\* true and whenever the selector list is empty (or not set).
C19_RedactUnchanged ==
  (/\ call.op = "redactDom"
   /\ config.allowPII \/ config.redactSelectors \in {None, Some(<<>>)}) =>
    call.arg[2] = call.arg[1]

\* the ids of seq are the Len(seq) consecutive ids that end with last
Consecutive(seq, last) ==
  \A i \in 1..Len(seq) : seq[i].id = last - Len(seq) + i

\* C20: a flush hands to a new send exactly the events captured since the
\* previous flush, in capture order, and leaves the batch empty; a capture
\* during a send goes to the pending batch and changes no send in flight;
\* when a send settles the pending batch is untouched, and a failed send
\* requeues its own events only.
C20_FlushSnapshot ==
  [][/\ Len(flushSends') > Len(flushSends) =>
          /\ flushSends' = Append(flushSends, Last(flushSends'))
          /\ Last(flushSends') =
               IF Batched THEN Append(batch, Last(Last(flushSends')))
               ELSE batch
          /\ Consecutive(Last(flushSends'), captured')
          /\ batch' = <<>>
     /\ Consecutive(batch', captured')
     /\ (Batched /\ Len(flushSends') = Len(flushSends)) =>
          /\ batch' = Append(batch, Last(batch'))
          /\ flushSends' = flushSends
     /\ Ran("flushBatchSettled") =>
          /\ batch' = batch
          /\ Range(batch) \cap Range(errorQueue') = {}
          /\ ~Resolves(call'.res) => errorQueue' = errorQueue \o call'.arg]_vars

\* a send failed while a later send was in flight and newer events were
\* pending
C20_Witness ==
  /\ call.op = "flushBatchSettled" /\ ~Resolves(call.res)
  /\ batch # <<>> /\ flushSends # <<>>
  /\ errorQueue = call.arg
  /\ Last(call.arg).id < Head(Head(flushSends)).id
  /\ Last(Head(flushSends)).id < Head(batch).id

\* every event the earlier page load stored comes before every event this
\* instance enqueued
StoredFirst(seq) ==
  \A i, j \in 1..Len(seq) : (i < j /\ seq[i].id > 0) => seq[j].id > 0

\* C21: when the send of a drain fails, the events it took are put back in
\* front of the queue in the order they were taken, the events enqueued
\* meanwhile stay behind them in their order, the stored queue is rewritten
\* with exactly this sequence and the drain stops without another send; an
\* enqueue appends at the back, so the queue (with the events a drain holds
\* in front of it) is always in the order of first enqueue.
C21_FailedDrainKeepsOrder ==
  [][/\ (Ran("flushQueueSettled") /\ ~Resolves(call'.res)) =>
          /\ errorQueue' = call'.arg \o errorQueue
          /\ storage' = Some(call'.arg \o errorQueue)
          /\ drainSends' = <<>> /\ ~isSendingQueue'
     /\ Ran("flushBatchSettled") =>
          /\ Len(errorQueue') >= Len(errorQueue)
          /\ SubSeq(errorQueue', 1, Len(errorQueue)) = errorQueue
     /\ StoredInOrder(Flatten(drainSends') \o errorQueue')
     /\ StoredFirst(Flatten(drainSends') \o errorQueue')]_vars

\* a drain that took 10 of 11 stored events failed after an event of this
\* instance had been enqueued behind the 11th
C21_Witness ==
  /\ call.op = "flushQueueSettled" /\ ~Resolves(call.res)
  /\ Len(call.arg) = BATCH_SIZE
  /\ Len(errorQueue) > BATCH_SIZE + 1
  /\ SubSeq(errorQueue, 1, BATCH_SIZE) = call.arg
  /\ errorQueue[BATCH_SIZE + 1].id < 0
  /\ Last(errorQueue).id > 0
  /\ storage = Some(errorQueue)

\* C22: a flushed batch is delivered only when no batch flushed before it is
\* still in flight: the send the collector accepts is the oldest one.
C22_DeliveredInFlushOrder ==
  [][(Ran("flushBatchSettled") /\ Accepted(call'.res)) =>
       call'.arg = Head(flushSends)]_vars

\* the events the agent holds in memory
Held ==
  Range(batch) \cup Range(errorQueue) \cup Range(Flatten(flushSends))
    \cup Range(Flatten(drainSends))

\* C23: the breadcrumbs of an event that is batched, in a send or queued
\* never change, whatever is recorded in or evicted from the trail afterwards.
C23_SnapshotIsCopy ==
  [][\A e \in Held : \A f \in Held' :
       e.id = f.id => f.metadata.breadcrumbs = e.metadata.breadcrumbs]_vars

\* a breadcrumb is recorded while the queue and the batch (or a send) hold
\* events whose oldest breadcrumb the trail has already evicted
C23_Witness ==
  /\ call.op = "addBreadcrumb" /\ crumbCount > BREADCRUMB_LIMIT
  /\ \E e \in Range(errorQueue) :
       /\ e.metadata.breadcrumbs \notin {None, Some(<<>>)}
       /\ Head(e.metadata.breadcrumbs[1]).n < Head(breadcrumbs).n
  /\ \E e \in Range(batch) \cup Range(Flatten(flushSends)) :
       /\ e.metadata.breadcrumbs \notin {None, Some(<<>>)}
       /\ Head(e.metadata.breadcrumbs[1]).n < Head(breadcrumbs).n

\* every place an event can be in: the pending batch, the sends in flight,
\* the delivery queue and what the collector accepted
Everywhere ==
  batch \o Flatten(flushSends) \o Flatten(drainSends) \o errorQueue
    \o Flatten(delivered)

\* C24: every event capture accepted is in exactly one place (pending batch,
\* one send in flight, the delivery queue, delivered), no event is anywhere
\* twice, and no event disappears.
C24_EventConservation ==
  [][/\ \A i, j \in 1..Len(Everywhere') :
          Everywhere'[i].id = Everywhere'[j].id => i = j
     /\ \A e \in Range(Everywhere) : \E f \in Range(Everywhere') : f.id = e.id
     /\ \A id \in 1..captured' : \E f \in Range(Everywhere') : f.id = id]_vars

\* C25: an event for which beforeSend returns null or throws is not held
\* anywhere afterwards: not in the batch, not in the delivery queue or the
\* stored queue, not in a send.
C25_GateNotBypassed ==
  [][(/\ Ran("captureError")
      /\ beforeSend(config.beforeSend, call'.arg[1]).st # "ok") =>
       /\ \A e \in Held' : e.id # call'.arg[1].id
       /\ storage' = storage]_vars

\* C26: every drain that is in progress ends, with isSendingQueue reset,
\* provided its sends complete.
C26_DrainTerminates == isSendingQueue ~> ~isSendingQueue

\* a drain restarted by 'online' after a failed one has ended as well
C26_Witness ==
  /\ call.op = "flushQueueSettled" /\ ~isSendingQueue /\ drainSends = <<>>
  /\ counts.online > 0 /\ Len(delivered) > 1 /\ errorQueue # <<>>
  /\ counts.recovered = 0

\* C27: the diagnostic after a failed send or a failed capture is not
\* captured: a failed send creates no event, leaves the batch and the timer
\* as they are and starts no send; a capture that fails creates no event
\* besides its own.
C27_DiagnosticsNotCaptured ==
  [][/\ (Ran("flushBatchSettled") /\ ~Accepted(call'.res)) =>
          /\ captured' = captured
          /\ batch' = batch /\ timers' = timers /\ batchTimer' = batchTimer
          /\ Len(flushSends') < Len(flushSends)
     /\ (Ran("captureError") /\ call'.res = "queued") =>
          /\ captured' = captured + 1
          /\ batch' = batch /\ timers' = timers]_vars

\* nothing is pending and every event captured so far has been delivered
AllDelivered ==
  /\ batch = <<>> /\ flushSends = <<>> /\ drainSends = <<>>
  /\ errorQueue = <<>> /\ storage \in {None, Some(<<>>)}
  /\ \A id \in 1..captured : \E e \in Range(Flatten(delivered)) : e.id = id

\* C28: once the collector answers every request with a 2xx, a drain
\* trigger ('online') leads to every captured event being delivered and the
\* batch, the delivery queue and the stored queue being empty, for good.
C28_EventualDelivery ==
  (counts.recovered > 0 /\ call.op = "online") ~> []AllDelivered

====
